---- MODULE Spec2Model ----
(***************************************************************************)
(* State-machine model of obj-reader (src/obj-reader.c): the two-pass     *)
(* Wavefront .obj reader obj_read and the release operation obj_free.     *)
(*                                                                         *)
(* A C string is a sequence of one-character strings without its          *)
(* terminating NUL; a file is a sequence of lines as fgets delivers them  *)
(* (each line keeps its newline, the last line of a file may lack it).    *)
(***************************************************************************)
EXTENDS Integers, Sequences, FiniteSets, TLC

(***************************************************************************)
(* Bounds of the model                                                     *)
(***************************************************************************)
\* longest file, in lines
MaxLines == 2
\* how many malloc calls of one alloc_mesh_data call may return NULL
MaxAllocFail == 1
\* how many times the caller calls obj_free on the returned mesh
MaxFrees == 2
\* how many writes past the end of the faces buffer are followed before the
\* process is taken to have faulted
MaxOverrun == 1

(***************************************************************************)
(* Characters                                                              *)
(***************************************************************************)
NUL == "NUL"
\* value of an uninitialised object
UNINIT == "UNINIT"
\* a null char pointer (no C string has this element)
NULL == <<"NULL">>

Digits == {"0", "1", "2", "3", "4", "5", "6", "7", "8", "9"}

\* the character code (ASCII) of the characters the model's files use
Code(c) ==
    CASE c = NUL  -> 0
      [] c = "\n" -> 10
      [] c = " "  -> 32
      [] c = "#"  -> 35
      [] c = "."  -> 46
      [] c = "/"  -> 47
      [] c = "0"  -> 48
      [] c = "1"  -> 49
      [] c = "2"  -> 50
      [] c = "3"  -> 51
      [] c = "4"  -> 52
      [] c = "5"  -> 53
      [] c = "6"  -> 54
      [] c = "7"  -> 55
      [] c = "8"  -> 56
      [] c = "9"  -> 57
      [] c = "B"  -> 66
      [] c = "J"  -> 74
      [] c = "O"  -> 79
      [] c = "a"  -> 97
      [] c = "b"  -> 98
      [] c = "c"  -> 99
      [] c = "e"  -> 101
      [] c = "f"  -> 102
      [] c = "g"  -> 103
      [] c = "j"  -> 106
      [] c = "m"  -> 109
      [] c = "n"  -> 110
      [] c = "o"  -> 111
      [] c = "r"  -> 114
      [] c = "s"  -> 115
      [] c = "t"  -> 116
      [] c = "v"  -> 118
      [] c = "x"  -> 120

DigitVal(c) == Code(c) - 48

\* s[i] of the C string s, i counted from 0; s[strlen(s)] is the NUL
CharAt(s, i) == IF i < Len(s) THEN s[i + 1] ELSE NUL

Min(a, b) == IF a <= b THEN a ELSE b

\* strncmp(a, b, n): 0 when the first n characters agree (a NUL ends the
\* comparison), 1 otherwise (the sign is not used by the program)
strncmp(a, b, n) ==
    IF SubSeq(a, 1, Min(n, Len(a))) = SubSeq(b, 1, Min(n, Len(b))) THEN 0 ELSE 1

(***************************************************************************)
(* Extension check.  A uint32_t is kept as its two 16-bit halves.          *)
(***************************************************************************)
Half == 2 ^ 16

U32(n) == [hi |-> n \div Half, lo |-> n % Half]

U32Geq(a, b) == a.hi > b.hi \/ (a.hi = b.hi /\ a.lo >= b.lo)

\* a - b for a >= b
U32Diff(a, b) ==
    LET borrow == IF a.lo < b.lo THEN 1 ELSE 0
    IN  [hi |-> a.hi - b.hi - borrow, lo |-> (a.lo - b.lo + Half) % Half]

\* min(n, len) for a uint32_t n and a string length len
U32Cap(n, len) == IF n.hi > 0 \/ n.lo > len THEN len ELSE n.lo

MAX_LEN == [hi |-> Half - 1, lo |-> Half - 1]

\* the loop tests the pointer s, not the character *s: a null pointer gives
\* 0, any other pointer never becomes null and the loop runs to MAX_LEN
strlen_s(s) == IF s = NULL THEN U32(0) ELSE MAX_LEN

\* the C string s + off; an offset past the terminating NUL leaves the string
StrFrom(s, off) ==
    IF off.hi = 0 /\ off.lo <= Len(s) THEN SubSeq(s, off.lo + 1, Len(s))
    ELSE <<UNINIT>>

str_endswith(s, suff) ==
    LET sLen    == strlen_s(s)
        suffLen == strlen_s(suff)
    IN  /\ U32Geq(sLen, suffLen)
        /\ LET tail == StrFrom(s, U32Diff(sLen, suffLen))
           IN  strncmp(tail, suff, U32Cap(suffLen, Len(tail) + Len(suff))) = 0

ExtObj == <<".", "o", "b", "j">>
ExtOBJ == <<".", "O", "B", "J">>

\* the extension test at the head of try_open_obj
ExtensionOk(path) == str_endswith(path, ExtObj) \/ str_endswith(path, ExtOBJ)

(***************************************************************************)
(* Line classification                                                     *)
(***************************************************************************)
OBJ_COMMENT        == 0
OBJ_VECPOS         == 1
OBJ_VECTEXT        == 2
OBJ_VECNORM        == 3
OBJ_VECPARAM       == 4
OBJ_FACE           == 5
OBJ_LINE           == 6
OBJ_MTLSPEC        == 7
OBJ_MTLUSE         == 8
OBJ_OBJECT         == 9
OBJ_GROUP          == 10
OBJ_SSHADING       == 11
OBJ_NUM_LINE_TYPES == 12
OBJ_INVALID_LINE   == 13

LINE_SPEC ==
    [i \in 0 .. (OBJ_NUM_LINE_TYPES - 1) |->
        CASE i = OBJ_COMMENT  -> <<"#", " ">>
          [] i = OBJ_VECPOS   -> <<"v", " ">>
          [] i = OBJ_VECTEXT  -> <<"v", "t", " ">>
          [] i = OBJ_VECNORM  -> <<"v", "n", " ">>
          [] i = OBJ_VECPARAM -> <<"v", "p", " ">>
          [] i = OBJ_FACE     -> <<"f", " ">>
          [] i = OBJ_LINE     -> <<"l", " ">>
          [] i = OBJ_MTLSPEC  -> <<"m", "t", "l", "l", "i", "b", " ">>
          [] i = OBJ_MTLUSE   -> <<"u", "s", "e", "m", "t", "l", " ">>
          [] i = OBJ_OBJECT   -> <<"o", " ">>
          [] i = OBJ_GROUP    -> <<"g", " ">>
          [] i = OBJ_SSHADING -> <<"s", " ">>]

\* get_line_type with OBJ_VECPOS in place of OBJ_INVALID_LINE as the fallback
get_line_type_Mutant(buf) ==
    LET hits == {i \in 0 .. (OBJ_NUM_LINE_TYPES - 1) :
                    strncmp(buf, LINE_SPEC[i], Len(LINE_SPEC[i])) = 0}
    IN  IF hits = {} THEN OBJ_VECPOS
        ELSE CHOOSE i \in hits : \A j \in hits : i <= j

\* first prefix of LINE_SPEC that the line starts with
get_line_type(buf) ==
    LET hits == {i \in 0 .. (OBJ_NUM_LINE_TYPES - 1) :
                    strncmp(buf, LINE_SPEC[i], Len(LINE_SPEC[i])) = 0}
    IN  IF hits = {} THEN OBJ_INVALID_LINE
        ELSE CHOOSE i \in hits : \A j \in hits : i <= j

(***************************************************************************)
(* sscanf                                                                  *)
(***************************************************************************)
IsSpace(c) == c \in {" ", "\n"}

\* first index >= k of s that is not white space (Len(s) + 1 at the end)
SkipWs(s, k) ==
    CHOOSE j \in k .. (Len(s) + 1) :
        /\ j = Len(s) + 1 \/ ~IsSpace(s[j])
        /\ \A m \in k .. (j - 1) : IsSpace(s[m])

\* index after the longest run of decimal digits that starts at k
DigitRun(s, k) ==
    CHOOSE j \in k .. (Len(s) + 1) :
        /\ j = Len(s) + 1 \/ s[j] \notin Digits
        /\ \A m \in k .. (j - 1) : s[m] \in Digits

\* value of the decimal digits s[a .. b-1]
RECURSIVE DecVal(_, _, _)
DecVal(s, a, b) ==
    IF b <= a THEN 0 ELSE 10 * DecVal(s, a, b - 1) + DigitVal(s[b - 1])

\* a float is the decimal m / 10^e without trailing zero digits after the
\* point, so that equal values are equal records
RECURSIVE Float(_, _)
Float(m, e) ==
    IF e > 0 /\ m % 10 = 0 THEN Float(m \div 10, e - 1) ELSE [m |-> m, e |-> e]

\* the literal 1.0f
One == Float(1, 0)

\* one %f conversion at index k: white space is skipped, then the longest
\* prefix digits [. digits] with at least one digit is converted
ScanFloat(s, k) ==
    LET p == SkipWs(s, k)
    IN  IF p > Len(s) THEN [st |-> "eof", next |-> p]
        ELSE LET d1     == DigitRun(s, p)
                 hasDot == d1 <= Len(s) /\ s[d1] = "."
                 d2     == IF hasDot THEN DigitRun(s, d1 + 1) ELSE d1
                 nInt   == d1 - p
                 nFrac  == IF hasDot THEN d2 - (d1 + 1) ELSE 0
             IN  IF nInt + nFrac = 0 THEN [st |-> "fail", next |-> p]
                 ELSE [st   |-> "ok",
                       next |-> d2,
                       val  |-> Float(DecVal(s, p, d1) * (10 ^ nFrac)
                                        + (IF hasDot THEN DecVal(s, d1 + 1, d2) ELSE 0),
                                      nFrac)]

\* one %d conversion at index k
ScanInt(s, k) ==
    LET p == SkipWs(s, k)
    IN  IF p > Len(s) THEN [st |-> "eof", next |-> p]
        ELSE LET d == DigitRun(s, p)
             IN  IF d = p THEN [st |-> "fail", next |-> p]
                 ELSE [st |-> "ok", next |-> d, val |-> DecVal(s, p, d)]

\* the directives of a format one after the other: "%f" and "%d" convert, " "
\* is white space, any other character is a literal.  ret is sscanf's return
\* value (the number of conversions, or EOF = -1 when the input ends before the
\* first conversion), vals the converted values in order.
RECURSIVE ScanFmt(_, _, _, _)
ScanFmt(s, k, fmt, acc) ==
    IF fmt = <<>> THEN [ret |-> Len(acc), vals |-> acc]
    ELSE LET d     == Head(fmt)
             inEnd == [ret |-> IF acc = <<>> THEN -1 ELSE Len(acc), vals |-> acc]
             stop  == [ret |-> Len(acc), vals |-> acc]
             r     == IF d = "%f" THEN ScanFloat(s, k) ELSE ScanInt(s, k)
         IN  IF d \in {"%f", "%d"}
             THEN IF r.st = "eof" THEN inEnd
                  ELSE IF r.st = "fail" THEN stop
                  ELSE ScanFmt(s, r.next, Tail(fmt), Append(acc, r.val))
             ELSE IF d = " " THEN ScanFmt(s, SkipWs(s, k), Tail(fmt), acc)
             ELSE IF k > Len(s) THEN inEnd
             ELSE IF s[k] = d THEN ScanFmt(s, k + 1, Tail(fmt), acc)
             ELSE stop

\* the formats of try_get_data
FMT_V3 == <<"v", " ", "%f", " ", "%f", " ", "%f">>
FMT_V4 == <<"v", " ", "%f", " ", "%f", " ", "%f", " ", "%f">>
FMT_VN == <<"v", "n", " ", "%f", " ", "%f", " ", "%f">>
FMT_VT == <<"v", "t", " ", "%f", " ", "%f">>

(***************************************************************************)
(* Face formats                                                            *)
(***************************************************************************)
OBJ_POS_ONLY         == 0
OBJ_POS_AND_TEX      == 1
OBJ_POS_AND_NORM     == 2
OBJ_POS_TEX_AND_NORM == 3

FACE_INDEX_FORMAT ==
    [t \in OBJ_POS_ONLY .. OBJ_POS_TEX_AND_NORM |->
        CASE t = OBJ_POS_ONLY         -> <<"%d">>
          [] t = OBJ_POS_AND_TEX      -> <<"%d", "/", "%d">>
          [] t = OBJ_POS_AND_NORM     -> <<"%d", "/", "/", "%d">>
          [] t = OBJ_POS_TEX_AND_NORM -> <<"%d", "/", "%d", "/", "%d">>]

(***************************************************************************)
(* Input files                                                             *)
(***************************************************************************)
L_v3     == <<"v", " ", "1", ".", "0", " ", "2", ".", "0", " ", "3", ".", "0", "\n">>
L_v4     == <<"v", " ", "1", ".", "0", " ", "2", ".", "0", " ", "3", ".", "0", " ",
              "0", ".", "5", "\n">>
L_vEmpty == <<"v", " ", "\n">>
L_vBad   == <<"v", " ", "a", "b", "c", "\n">>
L_vn     == <<"v", "n", " ", "0", " ", "0", " ", "1", "\n">>
L_vnPart == <<"v", "n", " ", "1", ".", "0", " ", "a", "b", "c", "\n">>
L_vnBad  == <<"v", "n", " ", "a", "b", "c", "\n">>
L_vt     == <<"v", "t", " ", "0", ".", "5", " ", "1", "\n">>
L_vtBad  == <<"v", "t", " ", "a", "b", "c", "\n">>
L_x      == <<"x", " ", "g", "a", "r", "b", "a", "g", "e", "\n">>
L_cmt    == <<"#", " ", "c", "\n">>
L_f3     == <<"f", " ", "1", " ", "2", " ", "3", "\n">>
L_fn     == <<"f", " ", "1", "/", "/", "3", " ", "4", "/", "/", "6", " ",
              "7", "/", "/", "9", "\n">>
L_fDbl   == <<"f", " ", " ", "1", " ", "2", " ", "3", "\n">>
\* a last line without its newline
L_fTrail == <<"f", " ", " ">>

LineSet == {L_v3, L_v4, L_vEmpty, L_vBad, L_vn, L_vnPart, L_vnBad, L_vt, L_vtBad,
            L_x, L_cmt, L_f3, L_fn, L_fDbl, L_fTrail}

EndsWithNewline(l) == Len(l) > 0 /\ l[Len(l)] = "\n"

\* files of at most MaxLines lines; only the last line may lack its newline
Files ==
    {f \in UNION {[1 .. n -> LineSet] : n \in 0 .. MaxLines} :
        \A k \in 1 .. (Len(f) - 1) : EndsWithNewline(f[k])}

P_obj  == <<".", "o", "b", "j">>
P_OBJ  == <<".", "O", "B", "J">>
P_mesh == <<"m", "e", "s", "h", ".", "o", "b", "j">>
P_txt  == <<"a", ".", "t", "x", "t">>

Paths == {NULL, P_obj, P_OBJ, P_mesh, P_txt}

(***************************************************************************)
(* strtok(s + off, " "): the first token, NULL when there is none, and the *)
(* string as it reads after strtok has put a NUL behind the token          *)
(***************************************************************************)
strtok(s, off) ==
    LET starts == {j \in (off + 1) .. Len(s) : s[j] # " "}
    IN  IF starts = {} THEN [tok |-> NULL, str |-> s]
        ELSE LET a    == CHOOSE j \in starts : \A m \in starts : j <= m
                 ends == {j \in a .. Len(s) : s[j] = " "} \cup {Len(s) + 1}
                 e    == CHOOSE j \in ends : \A m \in ends : j <= m
             IN  [tok |-> SubSeq(s, a, e - 1), str |-> SubSeq(s, 1, e - 1)]

(***************************************************************************)
(* sscanf on the strings the program hands it: the lines of the files and  *)
(* the first tokens of the face lines.  The results are tabulated once.    *)
(***************************************************************************)
LineFormats == {FMT_V3, FMT_V4, FMT_VN, FMT_VT}
FaceFormats == {FACE_INDEX_FORMAT[t] : t \in OBJ_POS_ONLY .. OBJ_POS_TEX_AND_NORM}

\* the tokens strtok(lineBuff + 2, " ") can return
FirstTokens == {strtok(l, 2).tok : l \in LineSet} \ {NULL}

SscanfTable ==
    {<<s, fmt, ScanFmt(s, 1, fmt, <<>>)>> : s \in LineSet, fmt \in LineFormats}
    \cup {<<s, fmt, ScanFmt(s, 1, fmt, <<>>)>> : s \in FirstTokens, fmt \in FaceFormats}

sscanf(s, fmt) == (CHOOSE e \in SscanfTable : e[1] = s /\ e[2] = fmt)[3]

(***************************************************************************)
(* Mesh sizes and buffers                                                  *)
(***************************************************************************)
ZeroSizes == [nPos |-> 0, nNorms |-> 0, nTex |-> 0, nFaces |-> 0, flatFacesSize |-> 0]

\* the eleven pointers of Obj_MeshData, in the order of declaration
BufNames == <<"posX", "posY", "posZ", "posW", "normX", "normY", "normZ",
              "texU", "texV", "faces", "faceSizes">>
Bufs == {BufNames[k] : k \in 1 .. Len(BufNames)}

PosGroup  == {"posX", "posY", "posZ", "posW"}
NormGroup == {"normX", "normY", "normZ"}
TexGroup  == {"texU", "texV"}
FaceGroup == {"faces", "faceSizes"}

\* a pointer and the block it points to: p is "null", "heap" (a block of n
\* elements malloc returned) or "wild" (an uninitialised pointer); v holds the
\* elements; freed counts the calls of free on the block
NullBuf == [p |-> "null", n |-> 0, v |-> <<>>, freed |-> 0]
WildBuf == [p |-> "wild", n |-> 0, v |-> <<>>, freed |-> 0]

\* an element of a block is <<>> until it is stored to, then <<x>>
Unset == <<>>

\* malloc(n * size): NULL when it fails, else n uninitialised elements
Malloc(n, fails) ==
    IF fails THEN NullBuf
    ELSE [p |-> "heap", n |-> n, v |-> [k \in 1 .. n |-> Unset], freed |-> 0]

\* Obj_Mesh mesh = {}
EmptyData == [b \in Bufs |-> NullBuf]
EmptyMesh == [sizes |-> ZeroSizes, data |-> EmptyData]

NoRet == [successfulRead |-> FALSE, mesh |-> EmptyMesh]

(***************************************************************************)
(* Sizing pass: the body of the loop of get_sizes for one line             *)
(***************************************************************************)
NumSpaces(buf) == Cardinality({k \in 1 .. Len(buf) : buf[k] = " "})

\* get_sizes with the OBJ_VECTEXT case bumping nNorms instead of nTex
get_sizes_line_Mutant(sz, buf) ==
    LET lineType == get_line_type(buf)
    IN  CASE lineType = OBJ_VECPOS  -> [sz EXCEPT !.nPos = @ + 1]
          [] lineType = OBJ_VECTEXT -> [sz EXCEPT !.nNorms = @ + 1]
          [] lineType = OBJ_VECNORM -> [sz EXCEPT !.nNorms = @ + 1]
          [] lineType = OBJ_FACE    ->
                [sz EXCEPT !.nFaces = @ + 1,
                           !.flatFacesSize = @ + NumSpaces(buf)]
          [] OTHER -> sz

get_sizes_line(sz, buf) ==
    LET lineType == get_line_type(buf)
    IN  CASE lineType = OBJ_VECPOS  -> [sz EXCEPT !.nPos = @ + 1]
          [] lineType = OBJ_VECTEXT -> [sz EXCEPT !.nTex = @ + 1]
          [] lineType = OBJ_VECNORM -> [sz EXCEPT !.nNorms = @ + 1]
          [] lineType = OBJ_FACE    ->
                [sz EXCEPT !.nFaces = @ + 1,
                           !.flatFacesSize = @ + NumSpaces(buf)]
          [] OTHER -> sz

(***************************************************************************)
(* alloc_mesh_data: F is the set of pointers whose malloc returns NULL,    *)
(* junk the value an uninitialised pointer of data holds                   *)
(***************************************************************************)
alloc_mesh_data(sz, F, junk) ==
    LET f1 == F \cap PosGroup # {}
        f2 == f1 \/ F \cap NormGroup # {}
        f3 == f2 \/ F \cap TexGroup # {}
        f4 == f3 \/ F \cap FaceGroup # {}
    IN  [ok    |-> ~f4,
         calls |-> IF f1 THEN 4 ELSE IF f2 THEN 7 ELSE IF f3 THEN 9 ELSE 11,
         data  |-> [b \in Bufs |->
            IF b \in PosGroup THEN Malloc(sz.nPos, b \in F)
            ELSE IF b \in NormGroup
                 THEN IF f1 THEN junk ELSE Malloc(sz.nNorms, b \in F)
            ELSE IF b \in TexGroup
                 THEN IF f2 THEN junk ELSE Malloc(sz.nTex, b \in F)
            ELSE IF f3 THEN junk
            ELSE Malloc(IF b = "faces" THEN sz.flatFacesSize ELSE sz.nFaces,
                        b \in F)]]

(***************************************************************************)
(* Writes through the pointers of data                                     *)
(***************************************************************************)
\* the stores of one sscanf call: conversion j goes to names[j][idx]
Stores(names, vals, idx) ==
    [j \in 1 .. Len(vals) |-> [b |-> names[j], k |-> idx, x |-> vals[j]]]

\* a store lands in its block
ValidStore(d, w) == d[w.b].p = "heap" /\ w.k < d[w.b].n

\* the stores of ws that land in a block are made
ApplyStores(d, ws) ==
    [b \in Bufs |->
        [d[b] EXCEPT !.v =
            [k \in 1 .. Len(d[b].v) |->
                LET js == {j \in 1 .. Len(ws) : ws[j].b = b /\ ws[j].k + 1 = k}
                IN  IF js = {} THEN d[b].v[k]
                    ELSE <<ws[CHOOSE j \in js : \A m \in js : m <= j].x>>]]]

AllValid(d, ws) == \A j \in 1 .. Len(ws) : ValidStore(d, ws[j])

(***************************************************************************)
(* Decode pass: the cases OBJ_VECPOS, OBJ_VECNORM, OBJ_VECTEXT and the     *)
(* ignored line types of try_get_data, for one line.  abort is the early   *)
(* `return data`.                                                          *)
(***************************************************************************)
try_get_data_line(buf, t) ==
    LET lineType == get_line_type(buf)
        t1 == [t EXCEPT !.lineNum = @ + 1]
    IN  CASE lineType = OBJ_VECPOS ->
                LET r3 == sscanf(buf, FMT_V3)
                    r4 == sscanf(buf, FMT_V4)
                IN  IF r3.ret # 0
                    THEN [abort  |-> FALSE,
                          stores |-> Stores(<<"posX", "posY", "posZ">>, r3.vals, t.posIdx)
                                     \o <<[b |-> "posW", k |-> t.posIdx, x |-> One]>>,
                          tg     |-> [t1 EXCEPT !.posIdx = @ + 1]]
                    ELSE IF r4.ret # 0
                    THEN [abort  |-> FALSE,
                          stores |-> Stores(<<"posX", "posY", "posZ", "posW">>,
                                            r4.vals, t.posIdx),
                          tg     |-> [t1 EXCEPT !.posIdx = @ + 1]]
                    ELSE [abort |-> TRUE, stores |-> <<>>, tg |-> t1]
          [] lineType = OBJ_VECNORM ->
                LET r == sscanf(buf, FMT_VN)
                IN  IF r.ret # 0
                    THEN [abort  |-> FALSE,
                          stores |-> Stores(<<"normX", "normY", "normZ">>,
                                            r.vals, t.normIdx),
                          tg     |-> [t1 EXCEPT !.normIdx = @ + 1]]
                    ELSE [abort |-> TRUE, stores |-> <<>>, tg |-> t1]
          [] lineType = OBJ_VECTEXT ->
                LET r == sscanf(buf, FMT_VT)
                IN  IF r.ret # 0
                    THEN [abort  |-> FALSE,
                          stores |-> Stores(<<"texU", "texV">>, r.vals, t.textIdx),
                          tg     |-> [t1 EXCEPT !.textIdx = @ + 1]]
                    ELSE [abort |-> TRUE, stores |-> <<>>, tg |-> t1]
          [] OTHER -> [abort |-> FALSE, stores |-> <<>>, tg |-> t1]

(***************************************************************************)
(* obj_free: FREE on the eleven pointers in order.  stop = 0 frees them    *)
(* all; stop = k ends the call in the free of pointer k.                   *)
(***************************************************************************)
\* the pointers whose free is not the first free of a malloc'ed block
BadFrees(d) ==
    {k \in 1 .. Len(BufNames) :
        LET b == d[BufNames[k]]
        IN  b.p = "wild" \/ (b.p = "heap" /\ b.freed > 0)}

obj_free(d, stop) ==
    [b \in Bufs |->
        LET k == CHOOSE j \in 1 .. Len(BufNames) : BufNames[j] = b
        IN  IF d[b].p # "null" /\ (stop = 0 \/ k <= stop)
            THEN [d[b] EXCEPT !.freed = @ + 1]
            ELSE d[b]]

(***************************************************************************)
(* State                                                                   *)
(***************************************************************************)
VARIABLES
    pc,             \* where the program is
    currentPath,    \* static const char *currentPath
    openable,       \* whether fopen(currentPath, "r") succeeds
    file,           \* the content of the opened file
    fptr,           \* the stream: "none", "open" or "closed"
    rd,             \* number of lines the stream has delivered since the start
    lineBuff,       \* static char lineBuff[], as a C string
    sizes,          \* sizes of get_sizes, then mesh.sizes
    data,           \* data of try_get_data, then mesh.data
    allocOk,        \* what alloc_mesh_data returned
    mallocCalls,    \* number of calls of malloc
    tg,             \* the other locals of try_get_data
    dft,            \* the locals of determine_face_type
    pf,             \* the locals of parse_face
    successfulRead, \* successfulRead of obj_read
    ret,            \* the Obj_Return of obj_read, as the caller holds it
    freeCalls,      \* number of calls of obj_free on ret.mesh
    corrupt,        \* a store outside every block has happened
    overrun         \* number of such stores made by parse_face

vars == <<pc, currentPath, openable, file, fptr, rd, lineBuff, sizes, data,
          allocOk, mallocCalls, tg, dft, pf, successfulRead, ret, freeCalls,
          corrupt, overrun>>

TgInit == [posIdx |-> 0, normIdx |-> 0, textIdx |-> 0, faceVtxIdx |-> 0,
           faceIdx |-> 0, numVertices |-> 0, lineNum |-> 0]
DftInit == [i |-> 2, c |-> UNINIT, justParsedSlash |-> FALSE, parsedSlash |-> FALSE]
PfIdle == [faceType |-> OBJ_POS_ONLY, intBuff |-> NULL, numVertices |-> 0,
           posIdx |-> -1, normIdx |-> -1, texIdx |-> -1]

Init ==
    /\ pc = "start"
    /\ currentPath = NULL
    /\ openable = FALSE
    /\ file = <<>>
    /\ fptr = "none"
    /\ rd = 0
    /\ lineBuff = <<>>
    /\ sizes = ZeroSizes
    /\ data = EmptyData
    /\ allocOk = TRUE
    /\ mallocCalls = 0
    /\ tg = TgInit
    /\ dft = DftInit
    /\ pf = PfIdle
    /\ successfulRead = FALSE
    /\ ret = NoRet
    /\ freeCalls = 0
    /\ corrupt = FALSE
    /\ overrun = 0

(***************************************************************************)
(* obj_read up to the sizing pass                                          *)
(***************************************************************************)
\* try_open_obj without its two early returns
try_open_obj_Mutant(path, canOpen) == TRUE

\* try_open_obj: the extension test, then fopen
try_open_obj(path, canOpen) == ExtensionOk(path) /\ canOpen

\* obj_read(path) is called; f is the content of the file at path
ObjRead ==
    /\ pc = "start"
    /\ \E path \in Paths, canOpen \in BOOLEAN, f \in Files :
          /\ currentPath' = path
          /\ openable' = canOpen
          /\ IF try_open_obj(path, canOpen)
             THEN /\ file' = f
                  /\ fptr' = "open"
                  /\ pc' = "get_sizes"
                  /\ ret' = ret
             ELSE /\ f = <<>>
                  /\ file' = file
                  /\ fptr' = fptr
                  /\ pc' = "returned"
                  /\ ret' = [successfulRead |-> FALSE, mesh |-> EmptyMesh]
    /\ UNCHANGED <<rd, lineBuff, sizes, data, allocOk, mallocCalls, tg, dft, pf,
                   successfulRead, freeCalls, corrupt, overrun>>

(***************************************************************************)
(* get_sizes                                                               *)
(***************************************************************************)
\* fgets delivers a line; the switch of get_sizes
GetSizesLine ==
    /\ pc = "get_sizes"
    /\ rd < Len(file)
    /\ lineBuff' = file[rd + 1]
    /\ rd' = rd + 1
    /\ sizes' = get_sizes_line(sizes, file[rd + 1])
    /\ UNCHANGED <<pc, currentPath, openable, file, fptr, data, allocOk,
                   mallocCalls, tg, dft, pf, successfulRead, ret, freeCalls,
                   corrupt, overrun>>

\* fgets returns NULL: get_sizes returns, obj_read rewinds the stream and
\* clears successfulRead
GetSizesEnd ==
    /\ pc = "get_sizes"
    /\ rd = Len(file)
    /\ rd' = 0
    /\ successfulRead' = FALSE
    /\ pc' = "alloc_mesh_data"
    /\ UNCHANGED <<currentPath, openable, file, fptr, lineBuff, sizes, data,
                   allocOk, mallocCalls, tg, dft, pf, ret, freeCalls, corrupt,
                   overrun>>

(***************************************************************************)
(* try_get_data                                                            *)
(***************************************************************************)
\* the head of try_get_data: alloc_mesh_data is called and its result is
\* dropped, the cursors are cleared
AllocMeshData ==
    /\ pc = "alloc_mesh_data"
    /\ \E F \in SUBSET Bufs, junk \in {NullBuf, WildBuf} :
          /\ Cardinality(F) <= MaxAllocFail
          /\ LET a == alloc_mesh_data(sizes, F, junk)
             IN  /\ data' = a.data
                 /\ allocOk' = a.ok
                 /\ mallocCalls' = a.calls
    /\ tg' = TgInit
    /\ pc' = "try_get_data"
    /\ UNCHANGED <<currentPath, openable, file, fptr, rd, lineBuff, sizes, dft,
                   pf, successfulRead, ret, freeCalls, corrupt, overrun>>

\* try_get_data returns d to obj_read, which closes the stream and returns
Return(d, ok) ==
    /\ fptr' = "closed"
    /\ ret' = [successfulRead |-> ok, mesh |-> [sizes |-> sizes, data |-> d]]
    /\ pc' = "returned"

\* fgets delivers a line that is not a face line
DecodeLine ==
    /\ pc = "try_get_data"
    /\ rd < Len(file)
    /\ get_line_type(file[rd + 1]) # OBJ_FACE
    /\ lineBuff' = file[rd + 1]
    /\ rd' = rd + 1
    /\ \E r \in {try_get_data_line(file[rd + 1], tg)} :
       \E d \in {ApplyStores(data, r.stores)} :
           /\ tg' = r.tg
           /\ \/ /\ AllValid(data, r.stores)
                 /\ data' = d
                 /\ corrupt' = corrupt
                 /\ IF r.abort
                    THEN Return(d, successfulRead)
                    ELSE UNCHANGED <<pc, fptr, ret>>
              \/ /\ ~AllValid(data, r.stores)
                 /\ \/ /\ pc' = "crashed"
                       /\ UNCHANGED <<data, corrupt, fptr, ret>>
                    \/ /\ data' = d
                       /\ corrupt' = TRUE
                       /\ UNCHANGED <<pc, fptr, ret>>
    /\ UNCHANGED <<currentPath, openable, file, sizes, allocOk, mallocCalls,
                   dft, pf, successfulRead, freeCalls, overrun>>

\* fgets delivers a face line: parse_face is called and calls
\* determine_face_type
DecodeFace ==
    /\ pc = "try_get_data"
    /\ rd < Len(file)
    /\ get_line_type(file[rd + 1]) = OBJ_FACE
    /\ lineBuff' = file[rd + 1]
    /\ rd' = rd + 1
    /\ tg' = [tg EXCEPT !.lineNum = @ + 1]
    /\ dft' = DftInit
    /\ pc' = "determine_face_type"
    /\ UNCHANGED <<currentPath, openable, file, fptr, sizes, data, allocOk,
                   mallocCalls, pf, successfulRead, ret, freeCalls, corrupt,
                   overrun>>

\* determine_face_type returns faceType to parse_face, which clears its
\* locals and calls strtok
ParseFaceBegin(faceType) ==
    LET t == strtok(lineBuff, 2)
    IN  /\ pf' = [faceType |-> faceType, intBuff |-> t.tok, numVertices |-> 0,
                  posIdx |-> -1, normIdx |-> -1, texIdx |-> -1]
        /\ lineBuff' = t.str
        /\ pc' = "parse_face"

\* one turn of the loop of determine_face_type
DftIter ==
    /\ pc = "determine_face_type"
    /\ CharAt(lineBuff, dft.i) # " "
    /\ LET c == CharAt(lineBuff, dft.i)
       IN  IF Code(c) - 48 < 10
           THEN \* continue, without ++i
                /\ dft' = [dft EXCEPT !.c = c, !.justParsedSlash = FALSE]
                /\ UNCHANGED <<pc, pf, lineBuff>>
           ELSE IF c = "/"
           THEN IF dft.justParsedSlash
                THEN /\ dft' = [dft EXCEPT !.c = c]
                     /\ ParseFaceBegin(OBJ_POS_AND_NORM)
                ELSE IF dft.parsedSlash
                THEN /\ dft' = [dft EXCEPT !.c = c]
                     /\ ParseFaceBegin(OBJ_POS_TEX_AND_NORM)
                ELSE /\ dft' = [dft EXCEPT !.c = c, !.parsedSlash = TRUE,
                                           !.justParsedSlash = TRUE, !.i = @ + 1]
                     /\ UNCHANGED <<pc, pf, lineBuff>>
           ELSE /\ dft' = [dft EXCEPT !.c = c, !.i = @ + 1]
                /\ UNCHANGED <<pc, pf, lineBuff>>
    /\ UNCHANGED <<currentPath, openable, file, fptr, rd, sizes, data, allocOk,
                   mallocCalls, tg, successfulRead, ret, freeCalls, corrupt,
                   overrun>>

\* the loop of determine_face_type ends at a space
DftReturn ==
    /\ pc = "determine_face_type"
    /\ CharAt(lineBuff, dft.i) = " "
    /\ ParseFaceBegin(IF dft.parsedSlash THEN OBJ_POS_AND_TEX ELSE OBJ_POS_ONLY)
    /\ UNCHANGED <<currentPath, openable, file, fptr, rd, sizes, data, allocOk,
                   mallocCalls, tg, dft, successfulRead, ret, freeCalls,
                   corrupt, overrun>>

(***************************************************************************)
(* parse_face                                                              *)
(***************************************************************************)
\* the locals of parse_face after sscanf(intBuff, faceFormat, ...) has
\* converted vals
FaceLocals(p, vals) ==
    LET n == Len(vals)
        t == p.faceType
    IN  [p EXCEPT
            !.posIdx  = IF n >= 1 THEN vals[1] ELSE @,
            !.texIdx  = IF t \in {OBJ_POS_AND_TEX, OBJ_POS_TEX_AND_NORM} /\ n >= 2
                        THEN vals[2] ELSE @,
            !.normIdx = IF t = OBJ_POS_AND_NORM /\ n >= 2 THEN vals[2]
                        ELSE IF t = OBJ_POS_TEX_AND_NORM /\ n >= 3 THEN vals[3]
                        ELSE @]

\* one turn of `while (intBuff)`: intBuff is converted again and a triple is
\* stored; intBuff is not advanced
PfIter ==
    /\ pc = "parse_face"
    /\ pf.intBuff # NULL
    /\ \E p1 \in {FaceLocals(pf, sscanf(pf.intBuff, FACE_INDEX_FORMAT[pf.faceType]).vals)} :
       \E w \in {[b |-> "faces", k |-> tg.faceVtxIdx + pf.numVertices,
                  x |-> [posIdx |-> p1.posIdx, texIdx |-> p1.texIdx,
                         normIdx |-> p1.normIdx]]} :
           \/ /\ ValidStore(data, w)
              /\ data' = ApplyStores(data, <<w>>)
              /\ pf' = [p1 EXCEPT !.numVertices = @ + 1]
              /\ UNCHANGED <<pc, corrupt, overrun>>
           \/ /\ ~ValidStore(data, w)
              /\ \/ /\ pc' = "crashed"
                    /\ UNCHANGED <<data, pf, corrupt, overrun>>
                 \/ /\ overrun < MaxOverrun
                    /\ overrun' = overrun + 1
                    /\ corrupt' = TRUE
                    /\ pf' = [p1 EXCEPT !.numVertices = @ + 1]
                    /\ UNCHANGED <<pc, data>>
    /\ UNCHANGED <<currentPath, openable, file, fptr, rd, lineBuff, sizes,
                   allocOk, mallocCalls, tg, dft, successfulRead, ret,
                   freeCalls>>

\* intBuff is NULL: parse_face returns numVertices, try_get_data stores it in
\* faceSizes and advances faceIdx and faceVtxIdx
PfReturn ==
    /\ pc = "parse_face"
    /\ pf.intBuff = NULL
    /\ LET n == pf.numVertices
           w == [b |-> "faceSizes", k |-> tg.faceIdx, x |-> n]
       IN  /\ tg' = [tg EXCEPT !.numVertices = n, !.faceIdx = @ + 1,
                               !.faceVtxIdx = @ + n]
           /\ \/ /\ ValidStore(data, w)
                 /\ data' = ApplyStores(data, <<w>>)
                 /\ pc' = "try_get_data"
                 /\ corrupt' = corrupt
              \/ /\ ~ValidStore(data, w)
                 /\ \/ /\ pc' = "crashed"
                       /\ UNCHANGED <<data, corrupt>>
                    \/ /\ pc' = "try_get_data"
                       /\ corrupt' = TRUE
                       /\ data' = data
    /\ UNCHANGED <<currentPath, openable, file, fptr, rd, lineBuff, sizes,
                   allocOk, mallocCalls, dft, pf, successfulRead, ret,
                   freeCalls, overrun>>

\* fgets returns NULL in try_get_data: *successfulRead = true, return data
DecodeEnd ==
    /\ pc = "try_get_data"
    /\ rd = Len(file)
    /\ successfulRead' = TRUE
    /\ Return(data, TRUE)
    /\ UNCHANGED <<currentPath, openable, file, rd, lineBuff, sizes, data,
                   allocOk, mallocCalls, tg, dft, pf, freeCalls, corrupt,
                   overrun>>

(***************************************************************************)
(* obj_free                                                                *)
(***************************************************************************)
\* the caller calls obj_free(&ret.mesh)
ObjFree ==
    /\ pc = "returned"
    /\ freeCalls < MaxFrees
    /\ freeCalls' = freeCalls + 1
    /\ LET bad == BadFrees(ret.mesh.data)
       IN  \/ /\ ret' = [ret EXCEPT !.mesh.data = obj_free(@, 0)]
              /\ corrupt' = (corrupt \/ bad # {})
              /\ pc' = pc
           \/ /\ bad # {}
              /\ ret' = [ret EXCEPT !.mesh.data =
                            obj_free(@, CHOOSE k \in bad : \A m \in bad : k <= m)]
              /\ corrupt' = corrupt
              /\ pc' = "crashed"
    /\ UNCHANGED <<currentPath, openable, file, fptr, rd, lineBuff, sizes, data,
                   allocOk, mallocCalls, tg, dft, pf, successfulRead, overrun>>

(***************************************************************************)
(* Specification                                                           *)
(***************************************************************************)
Next ==
    \/ ObjRead
    \/ GetSizesLine
    \/ GetSizesEnd
    \/ AllocMeshData
    \/ DecodeLine
    \/ DecodeFace
    \/ DftIter
    \/ DftReturn
    \/ PfIter
    \/ PfReturn
    \/ DecodeEnd
    \/ ObjFree

Spec == Init /\ [][Next]_vars

\* obj_read runs on: a step that is possible is taken
FairSpec == Spec /\ WF_vars(Next)

(***************************************************************************)
(* What the properties below speak about                                   *)
(***************************************************************************)
HasPrefix(l, pre) == Len(l) >= Len(pre) /\ SubSeq(l, 1, Len(pre)) = pre

IsPosLine(l)  == HasPrefix(l, <<"v", " ">>)
IsNormLine(l) == HasPrefix(l, <<"v", "n", " ">>)
IsTexLine(l)  == HasPrefix(l, <<"v", "t", " ">>)
IsFaceLine(l) == HasPrefix(l, <<"f", " ">>)

\* the white-space delimited tokens of s
RECURSIVE Tokens(_)
Tokens(s) ==
    IF s = <<>> THEN <<>>
    ELSE IF IsSpace(Head(s)) THEN Tokens(Tail(s))
    ELSE LET ends == {j \in 1 .. Len(s) : IsSpace(s[j])} \cup {Len(s) + 1}
             e    == CHOOSE j \in ends : \A m \in ends : j <= m
         IN  <<SubSeq(s, 1, e - 1)>> \o Tokens(SubSeq(s, e, Len(s)))

\* the fields of a line: the tokens behind its first token
Fields(l) == IF Tokens(l) = <<>> THEN <<>> ELSE Tail(Tokens(l))

\* the token is a decimal number and nothing else
IsNumber(t) ==
    LET r == ScanFloat(t, 1) IN r.st = "ok" /\ r.next = Len(t) + 1
NumberOf(t) == ScanFloat(t, 1).val

\* the parts of a face token between its slashes
RECURSIVE SlashParts(_)
SlashParts(t) ==
    LET ends == {j \in 1 .. Len(t) : t[j] = "/"}
    IN  IF ends = {} THEN <<t>>
        ELSE LET e == CHOOSE j \in ends : \A m \in ends : j <= m
             IN  <<SubSeq(t, 1, e - 1)>> \o SlashParts(SubSeq(t, e + 1, Len(t)))

IsIndex(t) == Len(t) > 0 /\ \A j \in 1 .. Len(t) : t[j] \in Digits

\* the format a face token is written in, -1 when it is in none
TokenFormat(t) ==
    LET ps == SlashParts(t)
    IN  IF Len(ps) = 1 /\ IsIndex(ps[1]) THEN OBJ_POS_ONLY
        ELSE IF Len(ps) = 2 /\ IsIndex(ps[1]) /\ IsIndex(ps[2]) THEN OBJ_POS_AND_TEX
        ELSE IF Len(ps) = 3 /\ IsIndex(ps[1]) /\ ps[2] = <<>> /\ IsIndex(ps[3])
             THEN OBJ_POS_AND_NORM
        ELSE IF Len(ps) = 3 /\ IsIndex(ps[1]) /\ IsIndex(ps[2]) /\ IsIndex(ps[3])
             THEN OBJ_POS_TEX_AND_NORM
        ELSE -1

\* the (posIdx, texIdx, normIdx) a face token stands for
TokenTriple(t) ==
    LET ps  == SlashParts(t)
        f   == TokenFormat(t)
        num(x) == DecVal(x, 1, Len(x) + 1)
    IN  [posIdx  |-> num(ps[1]),
         texIdx  |-> IF f \in {OBJ_POS_AND_TEX, OBJ_POS_TEX_AND_NORM}
                     THEN num(ps[2]) ELSE -1,
         normIdx |-> IF f \in {OBJ_POS_AND_NORM, OBJ_POS_TEX_AND_NORM}
                     THEN num(ps[3]) ELSE -1]

\* all tokens of the face line are in one format
UniformFace(l) ==
    LET ts == Fields(l)
    IN  /\ IsFaceLine(l)
        /\ Len(ts) >= 1
        /\ TokenFormat(ts[1]) # -1
        /\ \A j \in 1 .. Len(ts) : TokenFormat(ts[j]) = TokenFormat(ts[1])

\* single spaces between the fields, no white space before the newline
SingleSpaced(l) ==
    /\ EndsWithNewline(l)
    /\ \A j \in 1 .. (Len(l) - 1) : l[j] = " " => ~IsSpace(l[j + 1])

AllNumbers(ts) == \A j \in 1 .. Len(ts) : IsNumber(ts[j])

WellFormedLine(l) ==
    /\ SingleSpaced(l)
    /\ \/ IsPosLine(l)  /\ Len(Fields(l)) \in {3, 4} /\ AllNumbers(Fields(l))
       \/ IsNormLine(l) /\ Len(Fields(l)) = 3 /\ AllNumbers(Fields(l))
       \/ IsTexLine(l)  /\ Len(Fields(l)) = 2 /\ AllNumbers(Fields(l))
       \/ UniformFace(l)
       \/ HasPrefix(l, <<"#", " ">>)

WellFormedFile(f) == \A k \in 1 .. Len(f) : WellFormedLine(f[k])

\* number of the first n lines of f that satisfy Is
CountLines(f, n, Is(_)) == Cardinality({k \in 1 .. n : Is(f[k])})

\* number of face tokens on the face lines among the first n lines of f
RECURSIVE CountFaceTokens(_, _)
CountFaceTokens(f, n) ==
    IF n = 0 THEN 0
    ELSE CountFaceTokens(f, n - 1) + (IF IsFaceLine(f[n]) THEN Len(Fields(f[n])) ELSE 0)

\* obj_read has returned to its caller
HasReturned == pc = "returned" \/ freeCalls > 0

\* the elements of block b that have been stored to
Written(d, b) == {k \in 1 .. Len(d[b].v) : d[b].v[k] # Unset}

\* the decode pass of try_get_data is running
Decoding == pc \in {"try_get_data", "determine_face_type", "parse_face"}

JustDecoded ==
    /\ pc \in {"try_get_data", "returned"}
    /\ fptr # "none"
    /\ rd > 0
    /\ lineBuff = file[rd]

(***************************************************************************)
(* C2: a position line with 3 numeric fields is stored as (x, y, z, 1.0),  *)
(* one with 4 numeric fields as (x, y, z, w) with the w of the line.       *)
(***************************************************************************)
C2_PositionW ==
    (/\ JustDecoded
     /\ allocOk
     /\ IsPosLine(lineBuff)
     /\ Len(Fields(lineBuff)) \in {3, 4}
     /\ AllNumbers(Fields(lineBuff)))
    => LET fs == Fields(lineBuff)
           k  == tg.posIdx
       IN  /\ k >= 1
           /\ data["posX"].v[k] = <<NumberOf(fs[1])>>
           /\ data["posY"].v[k] = <<NumberOf(fs[2])>>
           /\ data["posZ"].v[k] = <<NumberOf(fs[3])>>
           /\ data["posW"].v[k] = <<IF Len(fs) = 4 THEN NumberOf(fs[4]) ELSE One>>

(***************************************************************************)
(* C3: for a face line whose tokens are all in one format, parse_face      *)
(* takes the format of the first token, stores the triple of token j in    *)
(* slot faceVtxIdx + j - 1 with -1 for the indices the format lacks, and   *)
(* returns the number of tokens.                                           *)
(***************************************************************************)
C3_ParseFaceTriples ==
    (/\ fptr = "open"
     /\ pc \in {"parse_face", "try_get_data"}
     /\ rd > 0
     /\ allocOk
     /\ UniformFace(file[rd]))
    => LET ts   == Fields(file[rd])
           n    == IF pc = "parse_face" THEN pf.numVertices ELSE tg.numVertices
           base == IF pc = "parse_face" THEN tg.faceVtxIdx ELSE tg.faceVtxIdx - n
       IN  /\ pc = "parse_face" => pf.faceType = TokenFormat(ts[1])
           /\ pc = "try_get_data" => n = Len(ts)
           /\ n <= Len(ts)
           /\ \A j \in 1 .. n :
                 /\ base + j <= Len(data["faces"].v)
                 /\ j <= Len(ts)
                 /\ data["faces"].v[base + j] = <<TokenTriple(ts[j])>>

(***************************************************************************)
(* C4: a v, vn or vt line without the required number of parseable floats  *)
(* (3, 3, 2) stops the decode pass at that line: no later line is decoded, *)
(* obj_read returns successfulRead = false and the buffer of that kind     *)
(* holds the entries of the lines before it only.                          *)
(***************************************************************************)
\* number of fields at the head of ts that are numbers
RECURSIVE LeadingNumbers(_)
LeadingNumbers(ts) ==
    IF ts = <<>> \/ ~IsNumber(Head(ts)) THEN 0 ELSE 1 + LeadingNumbers(Tail(ts))

Malformed(l) ==
    \/ IsPosLine(l)  /\ LeadingNumbers(Fields(l)) < 3
    \/ IsNormLine(l) /\ LeadingNumbers(Fields(l)) < 3
    \/ IsTexLine(l)  /\ LeadingNumbers(Fields(l)) < 2

C4_MalformedLineAborts ==
    \A k \in 1 .. Len(file) :
        (Malformed(file[k]) /\ allocOk /\ (Decoding \/ fptr = "closed")) =>
            \/ rd < k
            \/ /\ rd = k
               /\ HasReturned
               /\ ~ret.successfulRead
               /\ IsPosLine(file[k]) =>
                     /\ tg.posIdx = CountLines(file, k - 1, IsPosLine)
                     /\ Cardinality(Written(ret.mesh.data, "posW")) = tg.posIdx
               /\ IsNormLine(file[k]) =>
                     /\ tg.normIdx = CountLines(file, k - 1, IsNormLine)
                     /\ Cardinality(Written(ret.mesh.data, "normX")) = tg.normIdx
               /\ IsTexLine(file[k]) =>
                     /\ tg.textIdx = CountLines(file, k - 1, IsTexLine)
                     /\ Cardinality(Written(ret.mesh.data, "texU")) = tg.textIdx

(***************************************************************************)
(* C5: whatever the number of obj_free calls on a returned mesh, every     *)
(* block is freed at most once (exactly once after the first call), and a  *)
(* null pointer is never freed.                                            *)
(***************************************************************************)
C5_FreeOnce ==
    \A b \in Bufs :
        LET x == ret.mesh.data[b]
        IN  /\ x.freed <= 1
            /\ x.p = "null" => x.freed = 0
            /\ (x.p = "heap" /\ freeCalls >= 1 /\ pc = "returned") => x.freed = 1

(***************************************************************************)
(* C6: in the sizing pass flatFacesSize is the number of white-space       *)
(* delimited tokens behind the f of the face lines read so far, whatever   *)
(* the spacing of the lines.                                               *)
(***************************************************************************)
C6_FlatFacesSizeCountsTokens ==
    pc = "get_sizes" => sizes.flatFacesSize = CountFaceTokens(file, rd)

(***************************************************************************)
(* C7: when alloc_mesh_data has failed, no line is decoded, no block is    *)
(* written and obj_read returns successfulRead = false.                    *)
(***************************************************************************)
C7_AllocFailureStopsDecode ==
    ~allocOk =>
        /\ tg.lineNum = 0
        /\ ~corrupt
        /\ \A b \in Bufs : Written(data, b) = {}
        /\ HasReturned => ~ret.successfulRead

(***************************************************************************)
(* C8: when the extension check or fopen fails, obj_read returns           *)
(* successfulRead = false and an empty mesh (sizes 0, the eleven pointers  *)
(* null), and malloc, the sizing pass and the decode pass have not run.    *)
(***************************************************************************)
C8_OpenFailureEmptyMesh ==
    (HasReturned /\ ~(ExtensionOk(currentPath) /\ openable)) =>
        /\ ~ret.successfulRead
        /\ ret.mesh.sizes = ZeroSizes
        /\ \A b \in Bufs : ret.mesh.data[b].p = "null" /\ ret.mesh.data[b].freed = 0
        /\ mallocCalls = 0
        /\ fptr = "none"
        /\ rd = 0
        /\ lineBuff = <<>>
        /\ sizes = ZeroSizes
        /\ tg.lineNum = 0

\* obj_read has returned because fopen failed on a path with the extension
C8_Witness ==
    /\ pc = "returned"
    /\ ExtensionOk(currentPath)
    /\ ~openable
    /\ ret = [successfulRead |-> FALSE, mesh |-> EmptyMesh]

(***************************************************************************)
(* C9: in the sizing pass a line that starts with none of the twelve       *)
(* prefixes is classified OBJ_INVALID_LINE, leaves the five counters as    *)
(* they are and does not end the pass; at the end of the pass every line   *)
(* of the file, the lines behind such a line too, has been counted.        *)
(***************************************************************************)
MatchesNoPrefix(l) ==
    \A i \in 0 .. (OBJ_NUM_LINE_TYPES - 1) : ~HasPrefix(l, LINE_SPEC[i])

C9_Step ==
    (pc = "get_sizes" /\ rd < Len(file) /\ MatchesNoPrefix(file[rd + 1])) =>
        /\ get_line_type(file[rd + 1]) = OBJ_INVALID_LINE
        /\ sizes' = sizes
        /\ pc' = "get_sizes"
        /\ rd' = rd + 1

C9_AllCounted ==
    pc = "alloc_mesh_data" =>
        /\ sizes.nPos = CountLines(file, Len(file), IsPosLine)
        /\ sizes.nNorms = CountLines(file, Len(file), IsNormLine)
        /\ sizes.nTex = CountLines(file, Len(file), IsTexLine)
        /\ sizes.nFaces = CountLines(file, Len(file), IsFaceLine)

C9_UnrecognizedLineSkipped == [][C9_Step]_vars /\ []C9_AllCounted

\* the sizing pass has ended on a file with an unrecognized line followed by
\* a position line, which has been counted
C9_Witness ==
    /\ pc = "alloc_mesh_data"
    /\ Len(file) = 2
    /\ MatchesNoPrefix(file[1])
    /\ IsPosLine(file[2])
    /\ sizes = [ZeroSizes EXCEPT !.nPos = 1]

(***************************************************************************)
(* C10: once the file is open obj_read comes to its return, with the       *)
(* stream closed (an allocation failure aside): both passes reach the end  *)
(* of the file, determine_face_type and the token loop of parse_face end.  *)
(***************************************************************************)
C10_ObjReadTerminates ==
    (fptr = "open") ~> (~allocOk \/ (pc = "returned" /\ fptr = "closed"))

(***************************************************************************)
(* C11: in every state of the decode pass each write cursor is within the  *)
(* size the sizing pass computed for its blocks: posIdx <= nPos,           *)
(* normIdx <= nNorms, textIdx <= nTex, faceIdx <= nFaces, and in           *)
(* parse_face faceVtxIdx + numVertices <= flatFacesSize, so that the index *)
(* of a store to faces is below flatFacesSize.                             *)
(***************************************************************************)
InDecodePass == pc \in {"try_get_data", "determine_face_type", "parse_face"}

C11_VertexCursorsWithinSizes ==
    InDecodePass =>
        /\ tg.posIdx <= sizes.nPos
        /\ tg.normIdx <= sizes.nNorms
        /\ tg.textIdx <= sizes.nTex
        /\ tg.faceIdx <= sizes.nFaces

C11_FaceCursorWithinSizes ==
    pc = "parse_face" => tg.faceVtxIdx + pf.numVertices <= sizes.flatFacesSize

C11_CursorsMonotone ==
    [][InDecodePass =>
          /\ tg'.posIdx >= tg.posIdx
          /\ tg'.normIdx >= tg.normIdx
          /\ tg'.textIdx >= tg.textIdx
          /\ tg'.faceIdx >= tg.faceIdx
          /\ tg'.faceVtxIdx >= tg.faceVtxIdx]_vars

C11_CursorsWithinSizes ==
    C11_VertexCursorsWithinSizes /\ C11_FaceCursorWithinSizes

(***************************************************************************)
(* C12: for every path string, strlen_s returns the number of characters   *)
(* before the terminating NUL, and the extension check of try_open_obj     *)
(* passes (fopen is attempted) exactly when the path ends with ".obj" or   *)
(* ".OBJ"; a path such as "mesh.obj" passes.                               *)
(***************************************************************************)
EndsWith(s, suff) ==
    Len(s) >= Len(suff) /\ SubSeq(s, Len(s) - Len(suff) + 1, Len(s)) = suff

HasObjSuffix(path) == EndsWith(path, ExtObj) \/ EndsWith(path, ExtOBJ)

\* obj_read has been called on a path string
CalledOnString == pc # "start" /\ currentPath # NULL

C12_StrlenCountsCharacters ==
    CalledOnString => strlen_s(currentPath) = U32(Len(currentPath))

\* the stream is opened exactly for the openable paths with the suffix
C12_PassesIffSuffix ==
    CalledOnString =>
        /\ ExtensionOk(currentPath) <=> HasObjSuffix(currentPath)
        /\ openable => (fptr # "none" <=> HasObjSuffix(currentPath))

C12_ExtensionCheck == C12_StrlenCountsCharacters /\ C12_PassesIffSuffix

====
